---- MODULE Spec2Model ----
(***************************************************************************)
(* A model of the VibeWatch recommendation pipeline (src/generator.py,     *)
(* src/retriever.py): retrieval, prompting, generation, the staged         *)
(* recovery of a JSON list from the model's raw text, and the enrichment   *)
(* of the recovered entries with poster URLs of the retrieved candidates.  *)
(*                                                                         *)
(* Text is a sequence of chunks.  A chunk is one character ("[", "]",      *)
(* "{", "}", ",", ":", the double quote, a blank) or an indivisible run of *)
(* characters holding none of these ("title", "Inside", "1", "null").      *)
(* Python values are records [t, s, items, d]:                             *)
(*   t = "str"  : the string s                                             *)
(*   t = "num"  : the number whose digits are s                            *)
(*   t = "null" : None                                                     *)
(*   t = "list" : the list items                                           *)
(*   t = "dict" : the dict d, a sequence of [k, v] in insertion order      *)
(***************************************************************************)
EXTENDS Integers, Sequences, FiniteSets, TLC

\* ------------------------------------------------------------------------
\* Python values
\* ------------------------------------------------------------------------
Str(s) == [t |-> "str", s |-> s, items |-> <<>>, d |-> <<>>]
Num(s) == [t |-> "num", s |-> s, items |-> <<>>, d |-> <<>>]
None == [t |-> "null", s |-> <<>>, items |-> <<>>, d |-> <<>>]
List(items) == [t |-> "list", s |-> <<>>, items |-> items, d |-> <<>>]
Dict(d) == [t |-> "dict", s |-> <<>>, items |-> <<>>, d |-> d]

\* dict membership, dict.get(key, default) and d[key] = val (a key keeps the
\* position of its first insertion and the value of its last)
HasKey(d, key) == \E i \in 1..Len(d) : d[i].k = key
DictGet(d, key, default) ==
    IF HasKey(d, key)
    THEN d[CHOOSE i \in 1..Len(d) : d[i].k = key].v
    ELSE default
DictSet(d, key, val) ==
    IF HasKey(d, key)
    THEN [i \in 1..Len(d) |-> IF d[i].k = key THEN [k |-> key, v |-> val] ELSE d[i]]
    ELSE Append(d, [k |-> key, v |-> val])

\* ------------------------------------------------------------------------
\* Text: str.strip(), str.lower(), substring test, str(value)
\* ------------------------------------------------------------------------
QUOTE == "\""
BLANK == " "
Digits == {"0", "1", "2", "3", "4", "5", "6", "7", "8", "9"}

RECURSIVE Strip(_)
Strip(s) ==
    IF s = <<>> THEN s
    ELSE IF Head(s) = BLANK THEN Strip(Tail(s))
    ELSE IF s[Len(s)] = BLANK THEN Strip(SubSeq(s, 1, Len(s) - 1))
    ELSE s

LowerChunk(c) ==
    CASE c = "Inside" -> "inside"
      [] c = "Out" -> "out"
      [] c = "Up" -> "up"
      [] c = "None" -> "none"
      [] OTHER -> c
Lower(s) == [i \in 1..Len(s) |-> LowerChunk(s[i])]

\* a in b, for Python strings
Contains(a, b) ==
    \E i \in 0..(Len(b) - Len(a)) : SubSeq(b, i + 1, i + Len(a)) = a

\* str(v) for the values a title can hold once it is hashable
PyStr(v) ==
    CASE v.t = "str" -> v.s
      [] v.t = "num" -> v.s
      [] v.t = "null" -> <<"None">>
      [] OTHER -> <<"?">>

\* ------------------------------------------------------------------------
\* json.loads: a recursive-descent parser over chunks.  Each parser returns
\* [ok, val, next]: whether it parsed a value starting at s[i], the value,
\* and the index after it.
\* ------------------------------------------------------------------------
Bad == [ok |-> FALSE, val |-> None, next |-> 0]
Good(v, n) == [ok |-> TRUE, val |-> v, next |-> n]

RECURSIVE SkipWs(_, _)
SkipWs(s, i) == IF i <= Len(s) /\ s[i] = BLANK THEN SkipWs(s, i + 1) ELSE i

\* index of the closing quote of the string opened at s[i], 0 when unterminated
RECURSIVE CloseQuote(_, _)
CloseQuote(s, j) ==
    IF j > Len(s) THEN 0
    ELSE IF s[j] = QUOTE THEN j
    ELSE CloseQuote(s, j + 1)

RECURSIVE DigitsEnd(_, _)
DigitsEnd(s, j) == IF j <= Len(s) /\ s[j] \in Digits THEN DigitsEnd(s, j + 1) ELSE j

RECURSIVE ParseValue(_, _), ParseElems(_, _, _), ParseMembers(_, _, _)

ParseString(s, i) ==
    LET j == CloseQuote(s, i + 1)
    IN IF j = 0 THEN Bad ELSE Good(Str(SubSeq(s, i + 1, j - 1)), j + 1)

ParseValue(s, i) ==
    IF i > Len(s) THEN Bad
    ELSE IF s[i] = QUOTE THEN ParseString(s, i)
    ELSE IF s[i] \in Digits THEN
        LET j == DigitsEnd(s, i) IN Good(Num(SubSeq(s, i, j - 1)), j)
    ELSE IF s[i] = "null" THEN Good(None, i + 1)
    ELSE IF s[i] = "[" THEN
        LET j == SkipWs(s, i + 1)
        IN IF j <= Len(s) /\ s[j] = "]" THEN Good(List(<<>>), j + 1)
           ELSE ParseElems(s, j, <<>>)
    ELSE IF s[i] = "{" THEN
        LET j == SkipWs(s, i + 1)
        IN IF j <= Len(s) /\ s[j] = "}" THEN Good(Dict(<<>>), j + 1)
           ELSE ParseMembers(s, j, <<>>)
    ELSE Bad

\* the elements of an array, s[i] being the start of the next element
ParseElems(s, i, acc) ==
    LET e == ParseValue(s, i)
    IN IF ~e.ok THEN Bad
       ELSE LET j == SkipWs(s, e.next)
                items == Append(acc, e.val)
            IN IF j > Len(s) THEN Bad
               ELSE IF s[j] = "]" THEN Good(List(items), j + 1)
               ELSE IF s[j] = "," THEN ParseElems(s, SkipWs(s, j + 1), items)
               ELSE Bad

\* the members of an object, s[i] being the start of the next key
ParseMembers(s, i, acc) ==
    IF i > Len(s) \/ s[i] # QUOTE THEN Bad
    ELSE LET key == ParseString(s, i)
         IN IF ~key.ok THEN Bad
            ELSE LET c == SkipWs(s, key.next)
                 IN IF c > Len(s) \/ s[c] # ":" THEN Bad
                    ELSE LET e == ParseValue(s, SkipWs(s, c + 1))
                         IN IF ~e.ok THEN Bad
                            ELSE LET j == SkipWs(s, e.next)
                                     d == DictSet(acc, key.val.s, e.val)
                                 IN IF j > Len(s) THEN Bad
                                    ELSE IF s[j] = "}" THEN Good(Dict(d), j + 1)
                                    ELSE IF s[j] = "," THEN ParseMembers(s, SkipWs(s, j + 1), d)
                                    ELSE Bad

\* json.loads(s): [ok, val]; ~ok is json.JSONDecodeError
JsonLoads(s) ==
    LET r == ParseValue(s, SkipWs(s, 1))
    IN IF r.ok /\ SkipWs(s, r.next) = Len(s) + 1
       THEN [ok |-> TRUE, val |-> r.val]
       ELSE [ok |-> FALSE, val |-> None]

\* ------------------------------------------------------------------------
\* json.dumps, used to write the texts a model may return
\* ------------------------------------------------------------------------
RECURSIVE Dumps(_), DumpItems(_), DumpPairs(_)
Dumps(v) ==
    CASE v.t = "str" -> <<QUOTE>> \o v.s \o <<QUOTE>>
      [] v.t = "num" -> v.s
      [] v.t = "null" -> <<"null">>
      [] v.t = "list" -> <<"[">> \o DumpItems(v.items) \o <<"]">>
      [] v.t = "dict" -> <<"{">> \o DumpPairs(v.d) \o <<"}">>
DumpItems(items) ==
    IF items = <<>> THEN <<>>
    ELSE IF Len(items) = 1 THEN Dumps(items[1])
    ELSE Dumps(items[1]) \o <<",", BLANK>> \o DumpItems(Tail(items))
DumpPairs(d) ==
    IF d = <<>> THEN <<>>
    ELSE LET p == <<QUOTE>> \o d[1].k \o <<QUOTE, ":", BLANK>> \o Dumps(d[1].v)
         IN IF Len(d) = 1 THEN p ELSE p \o <<",", BLANK>> \o DumpPairs(Tail(d))

\* ------------------------------------------------------------------------
\* Response recovery (generator.py, recommend)
\* ------------------------------------------------------------------------
Indices(s, c) == {i \in 1..Len(s) : s[i] = c}
Min(S) == CHOOSE m \in S : \A n \in S : m <= n
Max(S) == CHOOSE m \in S : \A n \in S : m >= n

\* the pattern made lazy, r'\[.*?\]': through the first "]" after the "["
RegexSearchLazy(content) ==
    LET opens == Indices(content, "[")
        closes == Indices(content, "]")
    IN IF opens # {} /\ closes # {} /\ Min(opens) < Max(closes)
       THEN [found |-> TRUE,
             str |-> SubSeq(content, Min(opens), Min({j \in closes : j > Min(opens)}))]
       ELSE [found |-> FALSE, str |-> <<>>]

\* the pattern without re.DOTALL: "." stops at a line break (a blank chunk)
RegexSearchSingleLine(content) ==
    LET opens == Indices(content, "[")
        closes == Indices(content, "]")
        blanks == Indices(content, BLANK)
    IN IF /\ opens # {} /\ closes # {} /\ Min(opens) < Max(closes)
          /\ \A b \in blanks : b < Min(opens) \/ b > Max(closes)
       THEN [found |-> TRUE, str |-> SubSeq(content, Min(opens), Max(closes))]
       ELSE [found |-> FALSE, str |-> <<>>]

\* re.search(r'\[.*\]', content, re.DOTALL): the leftmost "[" that has a "]"
\* after it, through the last "]"
RegexSearch(content) ==
    LET opens == Indices(content, "[")
        closes == Indices(content, "]")
    IN IF opens # {} /\ closes # {} /\ Min(opens) < Max(closes)
       THEN [found |-> TRUE, str |-> SubSeq(content, Min(opens), Max(closes))]
       ELSE [found |-> FALSE, str |-> <<>>]

\* one parse attempt: json.loads and the isinstance(recs, list) test
IsList(v) == v.t = "list"

\* TryParse without the isinstance test: whatever parses is iterated, a dict
\* by its keys
TryParseUnchecked(text) ==
    LET r == JsonLoads(text)
    IN IF ~r.ok THEN [outcome |-> "decode_error", recs |-> <<>>]
       ELSE IF IsList(r.val) THEN [outcome |-> "list", recs |-> r.val.items]
       ELSE [outcome |-> "list", recs |-> [i \in 1..Len(r.val.d) |-> Str(r.val.d[i].k)]]

TryParse(text) ==
    LET r == JsonLoads(text)
    IN IF ~r.ok THEN [outcome |-> "decode_error", recs |-> <<>>]
       ELSE IF IsList(r.val) THEN [outcome |-> "list", recs |-> r.val.items]
       ELSE [outcome |-> "not_list", recs |-> <<>>]

FALLBACK_REASON == <<"(LLM parsing failed)">>
FallbackLimit == 3

TITLE == <<"title">>
REASON == <<"reason">>
POSTER == <<"poster">>

\* FallbackRecs without the [:3]
FallbackRecsUncut(docs) ==
    [i \in 1..Len(docs) |->
        Dict(<< [k |-> TITLE, v |-> Str(docs[i].title)],
                [k |-> REASON, v |-> Str(FALLBACK_REASON)],
                [k |-> POSTER, v |-> docs[i].poster] >>)]

\* the fallback list built from docs[:3]
FallbackRecs(docs) ==
    [i \in 1..(IF Len(docs) < FallbackLimit THEN Len(docs) ELSE FallbackLimit) |->
        Dict(<< [k |-> TITLE, v |-> Str(docs[i].title)],
                [k |-> REASON, v |-> Str(FALLBACK_REASON)],
                [k |-> POSTER, v |-> docs[i].poster] >>)]

\* ------------------------------------------------------------------------
\* Enrichment (generator.py, _enrich_with_posters)
\* ------------------------------------------------------------------------
\* {doc.get("title", ""): doc.get("poster") for doc in docs}
\* TitleToPosterFrom keeping the poster of the first doc of a title
RECURSIVE TitleToPosterKeepFirst(_, _)
TitleToPosterKeepFirst(docs, acc) ==
    IF docs = <<>> THEN acc
    ELSE TitleToPosterKeepFirst(Tail(docs),
            IF HasKey(acc, Head(docs).title) THEN acc
            ELSE DictSet(acc, Head(docs).title, Head(docs).poster))

RECURSIVE TitleToPosterFrom(_, _)
TitleToPosterFrom(docs, acc) ==
    IF docs = <<>> THEN acc
    ELSE TitleToPosterFrom(Tail(docs), DictSet(acc, Head(docs).title, Head(docs).poster))
TitleToPoster(docs) == TitleToPosterFrom(docs, <<>>)

\* a list or a dict is unhashable: `title in title_to_poster` raises TypeError
Hashable(v) == v.t \notin {"list", "dict"}

\* title in title_to_poster, for a hashable title (a number or None equals no string)
ExactMatch(title, t2p) == title.t = "str" /\ HasKey(t2p, title.s)

\* FuzzyTest passing over a title that is empty
FuzzyTestNonEmpty(title, doc_title) ==
    LET title_str == Lower(PyStr(title))
        doc_title_str == Lower(doc_title)
    IN /\ title_str # <<>>
       /\ Contains(title_str, doc_title_str) \/ Contains(doc_title_str, title_str)

\* FuzzyTest in one direction only
FuzzyTestOneWay(title, doc_title) ==
    Contains(Lower(PyStr(title)), Lower(doc_title))

\* the test of the fuzzy loop for one doc_title
FuzzyTest(title, doc_title) ==
    LET title_str == Lower(PyStr(title))
        doc_title_str == Lower(doc_title)
    IN Contains(title_str, doc_title_str) \/ Contains(doc_title_str, title_str)

\* the fuzzy loop without its break: the last hit wins
FuzzyMatchLast(title, t2p) ==
    LET hits == {i \in 1..Len(t2p) : FuzzyTest(title, t2p[i].k)}
    IN IF hits = {} THEN 0 ELSE Max(hits)

\* the fuzzy loop: the position in title_to_poster of the first hit, 0 when none
FuzzyMatch(title, t2p) ==
    LET hits == {i \in 1..Len(t2p) : FuzzyTest(title, t2p[i].k)}
    IN IF hits = {} THEN 0 ELSE Min(hits)

\* PosterFor running the fuzzy loop first and the exact lookup after it
PosterForFuzzyFirst(title, t2p) ==
    LET i == FuzzyMatch(title, t2p)
    IN IF i # 0 THEN t2p[i].v
       ELSE IF ExactMatch(title, t2p) THEN DictGet(t2p, title.s, None)
       ELSE None

\* PosterFor trying the fuzzy loop too when the exact match has no poster
PosterForSkipNull(title, t2p) ==
    IF ExactMatch(title, t2p) /\ DictGet(t2p, title.s, None) # None
    THEN DictGet(t2p, title.s, None)
    ELSE LET i == FuzzyMatch(title, t2p)
         IN IF i = 0 THEN None ELSE t2p[i].v

\* the poster the loop body leaves in rec["poster"]
PosterFor(title, t2p) ==
    IF ExactMatch(title, t2p) THEN DictGet(t2p, title.s, None)
    ELSE LET i == FuzzyMatch(title, t2p)
         IN IF i = 0 THEN None ELSE t2p[i].v

\* EnrichRec with rec.setdefault("poster", None) for `rec["poster"] = None`
EnrichRecSetDefault(rec, t2p) ==
    IF rec.t # "dict" THEN [err |-> "AttributeError", val |-> rec]
    ELSE LET title == DictGet(rec.d, TITLE, Str(<<>>))
             init == IF HasKey(rec.d, POSTER) THEN rec.d ELSE DictSet(rec.d, POSTER, None)
         IN IF ~Hashable(title) THEN [err |-> "TypeError", val |-> Dict(init)]
            ELSE IF ExactMatch(title, t2p) \/ FuzzyMatch(title, t2p) # 0
                 THEN [err |-> "", val |-> Dict(DictSet(init, POSTER, PosterFor(title, t2p)))]
                 ELSE [err |-> "", val |-> Dict(init)]

\* EnrichRec without `rec["poster"] = None`: the key is written on a match only
EnrichRecNoInit(rec, t2p) ==
    IF rec.t # "dict" THEN [err |-> "AttributeError", val |-> rec]
    ELSE LET title == DictGet(rec.d, TITLE, Str(<<>>))
         IN IF ~Hashable(title) THEN [err |-> "TypeError", val |-> rec]
            ELSE IF ExactMatch(title, t2p) \/ FuzzyMatch(title, t2p) # 0
                 THEN [err |-> "", val |-> Dict(DictSet(rec.d, POSTER, PosterFor(title, t2p)))]
                 ELSE [err |-> "", val |-> rec]

\* the loop body for one rec: [err, val]
EnrichRec(rec, t2p) ==
    IF rec.t # "dict" THEN [err |-> "AttributeError", val |-> rec]
    ELSE LET title == DictGet(rec.d, TITLE, Str(<<>>))
             init == DictSet(rec.d, POSTER, None)
         IN IF ~Hashable(title) THEN [err |-> "TypeError", val |-> Dict(init)]
            ELSE [err |-> "", val |-> Dict(DictSet(init, POSTER, PosterFor(title, t2p)))]

\* EnrichLoop collecting the recs it has handled in front of the earlier ones
RECURSIVE EnrichLoopReversed(_, _, _)
EnrichLoopReversed(recs, t2p, acc) ==
    IF recs = <<>> THEN [err |-> "", val |-> acc]
    ELSE LET r == EnrichRec(Head(recs), t2p)
         IN IF r.err # "" THEN [err |-> r.err, val |-> <<>>]
            ELSE EnrichLoopReversed(Tail(recs), t2p, <<r.val>> \o acc)

RECURSIVE EnrichLoop(_, _, _)
EnrichLoop(recs, t2p, acc) ==
    IF recs = <<>> THEN [err |-> "", val |-> acc]
    ELSE LET r == EnrichRec(Head(recs), t2p)
         IN IF r.err # "" THEN [err |-> r.err, val |-> <<>>]
            ELSE EnrichLoop(Tail(recs), t2p, Append(acc, r.val))

EnrichWithPosters(recs, docs) == EnrichLoop(recs, TitleToPoster(docs), <<>>)

\* ------------------------------------------------------------------------
\* Bounds and inputs
\* ------------------------------------------------------------------------
MaxCatalog == 4     \* items in the index
MaxK == 4           \* largest k a caller asks for
MaxRecs == 2        \* entries in a list the model returns

T1 == <<"Inside", "Out">>
T2 == <<"Inside", "Out", "2">>
T3 == <<"Up">>
P1 == Str(<<"p1">>)
P2 == Str(<<"p2">>)
EVIL == Str(<<"evil">>)

\* The metadata of the i-th item of the catalog (build_embeddings.py): titles
\* repeat (a title is not unique) and a poster may be None.
CatalogTitles == <<T1, T1, T2, T3>>
CatalogPosters == <<P1, P2, None>>
CatalogItem(i) ==
    [id |-> i,
     title |-> CatalogTitles[((i - 1) % Len(CatalogTitles)) + 1],
     genres |-> <<"g">>,
     overview |-> <<"o">>,
     poster |-> CatalogPosters[((i - 1) % Len(CatalogPosters)) + 1]]
Catalog(n) == [i \in 1..n |-> CatalogItem(i)]

\* the orders in which a query can rank the items of the index
Rankings(idx) ==
    {f \in [1..Len(idx) -> 1..Len(idx)] : \A i, j \in 1..Len(idx) : f[i] = f[j] => i = j}

\* Entries a model may write into its list: an exact title, a lower-cased
\* fragment without reason, a title with a poster of the model's own, an entry
\* without title, an unknown title, a number as title, a list as title, and an
\* entry that is no object.
Entries ==
    << Dict(<<[k |-> TITLE, v |-> Str(T1)], [k |-> REASON, v |-> Str(<<"r">>)]>>),
       Dict(<<[k |-> TITLE, v |-> Str(<<"out">>)]>>),
       Dict(<<[k |-> TITLE, v |-> Str(T2)], [k |-> REASON, v |-> Str(<<"r">>)],
              [k |-> POSTER, v |-> EVIL]>>),
       Dict(<<[k |-> REASON, v |-> Str(<<"r">>)]>>),
       Dict(<<[k |-> TITLE, v |-> Str(<<"Zed">>)], [k |-> POSTER, v |-> EVIL]>>),
       Dict(<<[k |-> TITLE, v |-> Num(<<"2">>)]>>),
       Dict(<<[k |-> TITLE, v |-> List(<<>>)]>>),
       Num(<<"1">>) >>

\* the lists of at most MaxRecs entries, taken in the order of Entries
RECURSIVE Pick(_, _)
Pick(S, n) ==
    IF n = 0 THEN {<<>>}
    ELSE {<<>>} \cup UNION {{<<i>> \o rest : rest \in Pick({j \in S : j > i}, n - 1)} : i \in S}
EntryLists ==
    {[i \in 1..Len(p) |-> Entries[p[i]]] : p \in Pick(1..Len(Entries), MaxRecs)}

SampleList == Dumps(List(<<Entries[1]>>))
SampleObject == Dumps(Entries[3])
PROSE == <<"Here", BLANK, "you", BLANK, "go", ":", BLANK>>
FENCE == <<"~~~">>

\* The raw texts a model may return: every list of EntryLists alone, and one
\* list in the shapes recovery has to deal with.
ListReplies == {Dumps(List(l)) : l \in EntryLists}
ShapeReplies ==
    { <<BLANK>> \o SampleList \o <<BLANK>>,                       \* blanks around
      PROSE \o SampleList \o <<BLANK, "Enjoy">>,                  \* prose around
      FENCE \o <<"json", BLANK>> \o SampleList \o <<BLANK>> \o FENCE,
      <<"See", BLANK, "[", "1", "]", ":", BLANK>> \o SampleList,  \* "[" in the prose before
      SampleList \o <<BLANK, "(", "see", BLANK, "[", "1", "]", ")">>,
      SampleList \o <<BLANK, "or", BLANK>> \o SampleList,         \* two lists
      <<"a", "]", BLANK>> \o SampleList,                          \* "]" before
      SampleList \o <<BLANK, "[", "b">>,                          \* "[" after
      SampleObject,                                               \* an object
      <<"{", QUOTE, "recs", QUOTE, ":", BLANK>> \o SampleList \o <<"}">>,
      SubSeq(SampleList, 1, Len(SampleList) - 2),                 \* truncated
      <<"[", "[">> \o SampleObject \o <<"]", "]">>,               \* nested list
      <<QUOTE, "[", "1", "]", QUOTE>>,                            \* a string
      <<"]", BLANK, "[">>,
      <<"Sorry", BLANK, "no", BLANK, "idea">>,
      <<"null">>,
      Dumps(List(<<Dict(<<[k |-> TITLE, v |-> Str(<<>>)]>>)>>)),   \* an empty title
      <<BLANK>>,
      <<>> }
Replies == ListReplies \cup ShapeReplies

QUERY == <<"family", BLANK, "movie">>

\* ------------------------------------------------------------------------
\* State
\* ------------------------------------------------------------------------
VARIABLES
    indexDir,   \* whether INDEX_DIR exists: build_embeddings.py has been run
    index,      \* the items of the similarity index (read-only after Init)
    retriever,  \* the globals of retriever.py: _embeddings, _vectorstore, _metadata
    pc,         \* where the recommend call stands
    k,          \* the k of the call
    ranking,    \* the order in which the index ranks its items for the query
    docs,       \* recommend: docs
    messages,   \* recommend: messages
    content,    \* recommend: content
    attempts,   \* the recovery stages attempted so far, with their outcomes
    recs,       \* the list a stage parsed, as handed to _enrich_with_posters
    stage,      \* the stage that produced the result, 0 when none
    result,     \* the list recommend returned
    error,      \* the exception recommend raised, "" when none
    calls       \* the calls made to the collaborators (index load, similarity
                \* search, model) and the failure one of them ended in, "" when none

\* The state of what runs beside a single recommend call
VARIABLES
    reqs,       \* the requests a server handles at once: each one's place in
                \* recommend and retrieve, and its local variables
    loads,      \* how many times FAISS.load_local has returned an index
    conn,       \* db.py: whether _conn is set
    dbLock,     \* db.py: the thread that holds _db_lock, 0 when free
    pending,    \* the rows inserted on _conn and not yet committed
    table,      \* the committed rows of the table queries
    loggers,    \* the threads that call log_query: each one's place in it
    chunk,      \* get_tmdb_catalog.py: args.chunk
    ids,        \* the titles still to fetch
    fpc,        \* where main stands in its fetch loop
    rows,       \* main: rows, the buffer
    total_written,  \* main: total_written
    fetched,    \* the titles fetched without an exception, in order
    flushes,    \* the calls of to_csv made: mode, header and number of rows
    csv         \* the lines of the file args.out

serverVars == <<reqs, loads>>
dbVars == <<conn, dbLock, pending, table, loggers>>
fetchVars == <<chunk, ids, fpc, rows, total_written, fetched, flushes, csv>>
auxVars == <<serverVars, dbVars, fetchVars>>
callVars == <<pc, k, ranking, docs, messages, content, attempts, recs, stage, result,
              error, calls>>

vars == <<indexDir, index, retriever, pc, k, ranking, docs, messages, content,
          attempts, recs, stage, result, error, calls, auxVars>>

\* bounds of the server
MaxThreads == 2     \* requests handled at once

Threads == 1..MaxThreads
NoRequest ==
    [pc |-> "idle", k |-> 0, ranking |-> <<>>, reply |-> <<>>, docs |-> <<>>,
     content |-> <<>>, result |-> <<>>, error |-> ""]
ServerIdle ==
    /\ reqs = [t \in Threads |-> NoRequest]
    /\ loads = 0
MaxLoggers == 3     \* threads that call log_query

Loggers == 1..MaxLoggers
DbIdle ==
    /\ conn = FALSE
    /\ dbLock = 0
    /\ pending = <<>>
    /\ table = <<>>
    /\ loggers = [t \in Loggers |-> [pc |-> "idle", error |-> ""]]
FetchIdle ==
    /\ chunk = 1
    /\ ids = <<>>
    /\ fpc = "idle"
    /\ rows = <<>>
    /\ total_written = 0
    /\ fetched = <<>>
    /\ flushes = <<>>
    /\ csv = <<>>
AuxInit == ServerIdle /\ DbIdle /\ FetchIdle

NotLoaded == [embeddings |-> FALSE, vectorstore |-> FALSE, metadata |-> FALSE]

NoCalls == [load |-> 0, search |-> 0, llm |-> 0, cause |-> ""]

Init ==
    /\ indexDir \in BOOLEAN
    /\ index \in (IF indexDir THEN {Catalog(n) : n \in 0..MaxCatalog} ELSE {<<>>})
    /\ retriever = NotLoaded
    /\ pc = "Idle"
    /\ k = 0
    /\ ranking = <<>>
    /\ docs = <<>>
    /\ messages = <<>>
    /\ content = <<>>
    /\ attempts = <<>>
    /\ recs = <<>>
    /\ stage = 0
    /\ result = <<>>
    /\ error = ""
    /\ calls = NoCalls
    /\ AuxInit

\* ------------------------------------------------------------------------
\* recommend(user_query, k)
\* ------------------------------------------------------------------------
\* a caller invokes recommend
Call ==
    /\ pc = "Idle"
    /\ \E kk \in 0..MaxK, r \in Rankings(index) :
        /\ k' = kk
        /\ ranking' = r
    /\ pc' = "Retrieving"
    /\ UNCHANGED <<auxVars, calls, indexDir, index, retriever, docs, messages, content, attempts, recs,
                   stage, result, error>>

\* _load_vectorstore() without the INDEX_DIR.exists() test
LoadVectorstoreNoCheck(r, exists, o) ==
    IF r.vectorstore THEN [state |-> r, err |-> ""]
    ELSE CASE o = "EmbeddingsError" -> [state |-> r, err |-> o]
           [] o = "LoadError" -> [state |-> [r EXCEPT !.embeddings = TRUE], err |-> o]
           [] o = "MetadataError" ->
                [state |-> [r EXCEPT !.embeddings = TRUE, !.vectorstore = TRUE], err |-> o]
           [] OTHER ->
                [state |-> [embeddings |-> TRUE, vectorstore |-> TRUE, metadata |-> TRUE],
                 err |-> ""]

\* _load_vectorstore(): without INDEX_DIR it raises at once; otherwise o is the
\* place where it stops
LoadOutcomes == {"ok", "EmbeddingsError", "LoadError", "MetadataError"}
LoadVectorstore(r, exists, o) ==
    IF r.vectorstore THEN [state |-> r, err |-> ""]
    ELSE IF ~exists THEN [state |-> r, err |-> "FileNotFoundError"]
    ELSE CASE o = "EmbeddingsError" -> [state |-> r, err |-> o]
           [] o = "LoadError" -> [state |-> [r EXCEPT !.embeddings = TRUE], err |-> o]
           [] o = "MetadataError" ->
                [state |-> [r EXCEPT !.embeddings = TRUE, !.vectorstore = TRUE], err |-> o]
           [] OTHER ->
                [state |-> [embeddings |-> TRUE, vectorstore |-> TRUE, metadata |-> TRUE],
                 err |-> ""]

\* a search that returns every item, whatever k
SimilaritySearchAll(idx, rank, kk) == [i \in 1..Len(idx) |-> idx[rank[i]]]

\* _vectorstore.similarity_search(query, k) and the metadata of its hits
SimilaritySearch(idx, rank, kk) ==
    [i \in 1..(IF kk < Len(idx) THEN kk ELSE Len(idx)) |-> idx[rank[i]]]

\* retriever.retrieve(user_query, k=k)
Retrieve ==
    /\ pc = "Retrieving"
    /\ \E o \in LoadOutcomes, searchOk \in BOOLEAN :
        LET l == LoadVectorstore(retriever, indexDir, o)
        IN /\ retriever' = l.state
           /\ IF l.err # "" THEN
                 /\ pc' = "Failed"
                 /\ error' = l.err
                 /\ docs' = docs
                 /\ calls' = [calls EXCEPT !.load = @ + 1, !.cause = l.err]
              ELSE IF ~searchOk THEN
                 /\ pc' = "Failed"
                 /\ error' = "SearchError"
                 /\ docs' = docs
                 /\ calls' = [calls EXCEPT !.load = @ + 1, !.search = @ + 1,
                                           !.cause = "SearchError"]
              ELSE
                 /\ pc' = "Prompting"
                 /\ error' = error
                 /\ docs' = SimilaritySearch(index, ranking, k)
                 /\ calls' = [calls EXCEPT !.load = @ + 1, !.search = @ + 1]
    /\ UNCHANGED <<auxVars, indexDir, index, k, ranking, messages, content, attempts, recs, stage,
                   result>>

\* the digits of a natural number
RECURSIVE Decimal(_)
Decimal(n) ==
    LET digit == <<"0", "1", "2", "3", "4", "5", "6", "7", "8", "9">>[(n % 10) + 1]
    IN IF n < 10 THEN <<digit>> ELSE Decimal(n \div 10) \o <<digit>>

\* a doc as the dict json.dumps sees
DocDict(doc) ==
    Dict(<< [k |-> <<"id">>, v |-> Num(Decimal(doc.id))],
            [k |-> TITLE, v |-> Str(doc.title)],
            [k |-> <<"genres">>, v |-> Str(doc.genres)],
            [k |-> <<"overview">>, v |-> Str(doc.overview)],
            [k |-> POSTER, v |-> doc.poster] >>)

\* PROMPT_TEMPLATE.format_prompt(...).to_messages()
FormatPrompt(user_query, retrieved_docs) ==
    << [role |-> "system", text |-> <<"SYSTEM_PROMPT">>],
       [role |-> "user",
        text |-> <<"USER CONTEXT (free text):">> \o user_query
                 \o <<"CANDIDATE MOVIES (JSON list of dicts):">> \o retrieved_docs
                 \o <<"Return JSON:">>] >>

Prompt ==
    /\ pc = "Prompting"
    /\ messages' = FormatPrompt(QUERY, Dumps(List([i \in 1..Len(docs) |-> DocDict(docs[i])])))
    /\ pc' = "Generating"
    /\ UNCHANGED <<auxVars, calls, indexDir, index, retriever, k, ranking, docs, content, attempts, recs,
                   stage, result, error>>

\* Generate calling the model a second time when the first call fails
GenerateRetrying ==
    /\ pc = "Generating"
    /\ \/ \E reply \in Replies :
            /\ content' = Strip(reply)
            /\ pc' = "BracketScan"
            /\ error' = error
            /\ calls' = [calls EXCEPT !.llm = @ + 1]
       \/ /\ content' = content
          /\ IF calls.llm = 0
             THEN /\ pc' = pc
                  /\ error' = error
                  /\ calls' = [calls EXCEPT !.llm = @ + 1]
             ELSE /\ pc' = "Failed"
                  /\ error' = "GenerationError"
                  /\ calls' = [calls EXCEPT !.llm = @ + 1, !.cause = "GenerationError"]
    /\ UNCHANGED <<auxVars, indexDir, index, retriever, k, ranking, docs, messages, attempts, recs,
                   stage, result>>

\* Generate going on with an empty text when the model call fails
GenerateSwallowing ==
    /\ pc = "Generating"
    /\ \/ \E reply \in Replies :
            /\ content' = Strip(reply)
            /\ calls' = [calls EXCEPT !.llm = @ + 1]
       \/ /\ content' = <<>>
          /\ calls' = [calls EXCEPT !.llm = @ + 1, !.cause = "GenerationError"]
    /\ pc' = "BracketScan"
    /\ UNCHANGED <<auxVars, indexDir, index, retriever, k, ranking, docs, messages, attempts, recs,
                   stage, result, error>>

\* response = self.llm(messages); content = response.content.strip()
Generate ==
    /\ pc = "Generating"
    /\ \/ \E reply \in Replies :
            /\ content' = Strip(reply)
            /\ pc' = "BracketScan"
            /\ error' = error
            /\ calls' = [calls EXCEPT !.llm = @ + 1]
       \/ /\ content' = content
          /\ pc' = "Failed"
          /\ error' = "GenerationError"
          /\ calls' = [calls EXCEPT !.llm = @ + 1, !.cause = "GenerationError"]
    /\ UNCHANGED <<auxVars, indexDir, index, retriever, k, ranking, docs, messages, attempts, recs,
                   stage, result>>

\* BracketScan giving up at once when the pattern finds nothing
BracketScanGivesUp ==
    /\ pc = "BracketScan"
    /\ LET json_match == RegexSearch(content)
           p == TryParse(json_match.str)
       IN IF ~json_match.found THEN
             /\ attempts' = Append(attempts, [stage |-> 1, outcome |-> "no_match"])
             /\ pc' = "Fallback"
             /\ UNCHANGED <<recs, stage>>
          ELSE IF p.outcome = "list" THEN
             /\ attempts' = Append(attempts, [stage |-> 1, outcome |-> "list"])
             /\ recs' = p.recs
             /\ stage' = 1
             /\ pc' = "Enriching"
          ELSE
             /\ attempts' = Append(attempts, [stage |-> 1, outcome |-> p.outcome])
             /\ pc' = "WholeText"
             /\ UNCHANGED <<recs, stage>>
    /\ UNCHANGED <<auxVars, calls, indexDir, index, retriever, k, ranking, docs, messages, content,
                   result, error>>

\* stage 1: the span from the first "[" to the last "]"
BracketScan ==
    /\ pc = "BracketScan"
    /\ LET json_match == RegexSearch(content)
           p == TryParse(json_match.str)
       IN IF ~json_match.found THEN
             /\ attempts' = Append(attempts, [stage |-> 1, outcome |-> "no_match"])
             /\ pc' = "WholeText"
             /\ UNCHANGED <<recs, stage>>
          ELSE IF p.outcome = "list" THEN
             /\ attempts' = Append(attempts, [stage |-> 1, outcome |-> "list"])
             /\ recs' = p.recs
             /\ stage' = 1
             /\ pc' = "Enriching"
          ELSE
             /\ attempts' = Append(attempts, [stage |-> 1, outcome |-> p.outcome])
             /\ pc' = "WholeText"
             /\ UNCHANGED <<recs, stage>>
    /\ UNCHANGED <<auxVars, calls, indexDir, index, retriever, k, ranking, docs, messages, content,
                   result, error>>

\* WholeText starting recovery over when the text does not parse
WholeTextLooping ==
    /\ pc = "WholeText"
    /\ LET p == TryParse(content)
       IN IF p.outcome = "list" THEN
             /\ attempts' = Append(attempts, [stage |-> 2, outcome |-> "list"])
             /\ recs' = p.recs
             /\ stage' = 2
             /\ pc' = "Enriching"
          ELSE
             /\ attempts' = <<>>
             /\ pc' = "BracketScan"
             /\ UNCHANGED <<recs, stage>>
    /\ UNCHANGED <<auxVars, calls, indexDir, index, retriever, k, ranking, docs, messages, content,
                   result, error>>

\* stage 2: the whole content
WholeText ==
    /\ pc = "WholeText"
    /\ LET p == TryParse(content)
       IN IF p.outcome = "list" THEN
             /\ attempts' = Append(attempts, [stage |-> 2, outcome |-> "list"])
             /\ recs' = p.recs
             /\ stage' = 2
             /\ pc' = "Enriching"
          ELSE
             /\ attempts' = Append(attempts, [stage |-> 2, outcome |-> p.outcome])
             /\ pc' = "Fallback"
             /\ UNCHANGED <<recs, stage>>
    /\ UNCHANGED <<auxVars, calls, indexDir, index, retriever, k, ranking, docs, messages, content,
                   result, error>>

\* Fallback taking the poster out of each doc it passes through (m.pop)
FallbackPopping ==
    /\ pc = "Fallback"
    /\ attempts' = Append(attempts, [stage |-> 3, outcome |-> "list"])
    /\ stage' = 3
    /\ result' = FallbackRecs(docs)
    /\ docs' = [i \in 1..Len(docs) |->
                  IF i <= FallbackLimit THEN [docs[i] EXCEPT !.poster = None] ELSE docs[i]]
    /\ pc' = "Done"
    /\ UNCHANGED <<auxVars, calls, indexDir, index, retriever, k, ranking, messages, content,
                   recs, error>>

\* stage 3: the first docs with the fallback reason
Fallback ==
    /\ pc = "Fallback"
    /\ attempts' = Append(attempts, [stage |-> 3, outcome |-> "list"])
    /\ stage' = 3
    /\ result' = FallbackRecs(docs)
    /\ pc' = "Done"
    /\ UNCHANGED <<auxVars, calls, indexDir, index, retriever, k, ranking, docs, messages, content,
                   recs, error>>

\* return self._enrich_with_posters(recs, docs)
Enrich ==
    /\ pc = "Enriching"
    /\ LET r == EnrichWithPosters(recs, docs)
       IN IF r.err = "" THEN
             /\ result' = r.val
             /\ pc' = "Done"
             /\ error' = error
          ELSE
             /\ result' = result
             /\ pc' = "Failed"
             /\ error' = r.err
    /\ UNCHANGED <<auxVars, calls, indexDir, index, retriever, k, ranking, docs, messages, content, attempts,
                   recs, stage>>

Next ==
    \/ Call
    \/ Retrieve
    \/ Prompt
    \/ Generate
    \/ BracketScan
    \/ WholeText
    \/ Fallback
    \/ Enrich

Spec == Init /\ [][Next]_vars

\* a call that has neither returned nor raised
Running == pc \notin {"Done", "Failed"}

\* recommend is straight-line code: a call that stands at a statement goes on
\* to the next, each call to a collaborator returning or raising. This is weak
\* fairness of Next with ENABLED <<Next>>_vars written as Running, the two
\* being the same set of states: a running call stands at exactly one
\* statement, whose action is total.
FairSpec == Spec /\ ([]<><<Next>>_vars \/ []<>(~Running))

\* POST /recommend (api/app.py): the list as the body, or HTTP 500 with
\* detail=str(e), once recommend has returned or raised
HttpRecommend(p, recommendations, e) ==
    IF p = "Failed" THEN [status |-> 500, detail |-> e, body |-> <<>>]
    ELSE IF p = "Done" THEN [status |-> 200, detail |-> "", body |-> recommendations]
    ELSE [status |-> 0, detail |-> "", body |-> <<>>]

\* ------------------------------------------------------------------------
\* A server: requests running recommend at the same time, on threads that
\* share retriever.py's globals. A thread is switched between statements.
\* ------------------------------------------------------------------------
\* what recommend makes of the model's text (generator.py 39-69): [err, val]
Recommendations(text, candidates) ==
    LET json_match == RegexSearch(text)
        first == TryParse(json_match.str)
        second == TryParse(text)
    IN IF json_match.found /\ first.outcome = "list"
       THEN EnrichWithPosters(first.recs, candidates)
       ELSE IF second.outcome = "list"
       THEN EnrichWithPosters(second.recs, candidates)
       ELSE [err |-> "", val |-> FallbackRecs(candidates)]

\* the ks, rankings and model texts of the requests
ServerKs == {1, 3}
ServerRankings(idx) ==
    {[i \in 1..Len(idx) |-> i], [i \in 1..Len(idx) |-> Len(idx) + 1 - i]}
ServerReplies ==
    {Dumps(List(<<Entries[2]>>)), <<"Sorry", BLANK, "no", BLANK, "idea">>}

ServerInit ==
    /\ indexDir \in BOOLEAN
    /\ index = (IF indexDir THEN Catalog(MaxCatalog) ELSE <<>>)
    /\ retriever = NotLoaded
    /\ pc = "Idle"
    /\ k = 0
    /\ ranking = <<>>
    /\ docs = <<>>
    /\ messages = <<>>
    /\ content = <<>>
    /\ attempts = <<>>
    /\ recs = <<>>
    /\ stage = 0
    /\ result = <<>>
    /\ error = ""
    /\ calls = NoCalls
    /\ ServerIdle
    /\ DbIdle
    /\ FetchIdle

At(t, place) == reqs[t].pc = place
Goto(t, place) == reqs' = [reqs EXCEPT ![t].pc = place]
Raise(t, e) == reqs' = [reqs EXCEPT ![t].pc = "failed", ![t].error = e]

\* the endpoint calls recommender.recommend(user_input, k), which calls
\* retriever.retrieve(user_query, k=k)
Request(t) ==
    /\ At(t, "idle")
    /\ \E kk \in ServerKs, r \in ServerRankings(index) :
          reqs' = [reqs EXCEPT ![t].pc = "check", ![t].k = kk, ![t].ranking = r]
    /\ UNCHANGED <<indexDir, index, retriever, loads, callVars, dbVars, fetchVars>>

\* if _vectorstore is not None: return
LoadCheck(t) ==
    /\ At(t, "check")
    /\ IF retriever.vectorstore THEN Goto(t, "search") ELSE Goto(t, "exists")
    /\ UNCHANGED <<indexDir, index, retriever, loads, callVars, dbVars, fetchVars>>

\* if not INDEX_DIR.exists(): raise FileNotFoundError
LoadExists(t) ==
    /\ At(t, "exists")
    /\ IF indexDir THEN Goto(t, "embeddings") ELSE Raise(t, "FileNotFoundError")
    /\ UNCHANGED <<indexDir, index, retriever, loads, callVars, dbVars, fetchVars>>

\* _embeddings = OpenAIEmbeddings(model=EMBED_MODEL)
LoadEmbeddings(t) ==
    /\ At(t, "embeddings")
    /\ \/ /\ retriever' = [retriever EXCEPT !.embeddings = TRUE]
          /\ Goto(t, "load_local")
       \/ /\ Raise(t, "EmbeddingsError")
          /\ UNCHANGED retriever
    /\ UNCHANGED <<indexDir, index, loads, callVars, dbVars, fetchVars>>

\* _vectorstore = FAISS.load_local(str(INDEX_DIR), ...)
LoadLocal(t) ==
    /\ At(t, "load_local")
    /\ \/ /\ retriever' = [retriever EXCEPT !.vectorstore = TRUE]
          /\ loads' = loads + 1
          /\ Goto(t, "metadata")
       \/ /\ Raise(t, "LoadError")
          /\ UNCHANGED <<retriever, loads>>
    /\ UNCHANGED <<indexDir, index, callVars, dbVars, fetchVars>>

\* _metadata = {...} from metadata.json, or {}
LoadMetadata(t) ==
    /\ At(t, "metadata")
    /\ \/ /\ retriever' = [retriever EXCEPT !.metadata = TRUE]
          /\ Goto(t, "search")
       \/ /\ Raise(t, "MetadataError")
          /\ UNCHANGED retriever
    /\ UNCHANGED <<indexDir, index, loads, callVars, dbVars, fetchVars>>

\* docs = _vectorstore.similarity_search(query, k=k); the metadata of the hits
Search(t) ==
    /\ At(t, "search")
    /\ \/ reqs' = [reqs EXCEPT ![t].pc = "generate",
                               ![t].docs = SimilaritySearch(index, reqs[t].ranking, reqs[t].k)]
       \/ Raise(t, "SearchError")
    /\ UNCHANGED <<indexDir, index, retriever, loads, callVars, dbVars, fetchVars>>

\* response = self.llm(messages); content = response.content.strip()
Answer(t) ==
    /\ At(t, "generate")
    /\ \/ \E reply \in ServerReplies :
             reqs' = [reqs EXCEPT ![t].pc = "recover", ![t].reply = reply,
                                  ![t].content = Strip(reply)]
       \/ Raise(t, "GenerationError")
    /\ UNCHANGED <<indexDir, index, retriever, loads, callVars, dbVars, fetchVars>>

\* the candidates a request works with, were they kept on the recommender
\* (self.docs) and so shared by the requests
SharedDocs(t) ==
    IF \E u \in Threads \ {t} : reqs[u].docs # <<>>
    THEN reqs[CHOOSE u \in Threads \ {t} : reqs[u].docs # <<>>].docs
    ELSE reqs[t].docs

\* the candidates a request works with: its local variable docs
OwnDocs(t) == reqs[t].docs

\* recovery and enrichment, on the locals of the request
Finish(t) ==
    /\ At(t, "recover")
    /\ LET r == Recommendations(reqs[t].content, OwnDocs(t))
       IN IF r.err = ""
          THEN reqs' = [reqs EXCEPT ![t].pc = "done", ![t].result = r.val]
          ELSE Raise(t, r.err)
    /\ UNCHANGED <<indexDir, index, retriever, loads, callVars, dbVars, fetchVars>>

ServerNext ==
    \E t \in Threads :
        \/ Request(t)
        \/ LoadCheck(t)
        \/ LoadExists(t)
        \/ LoadEmbeddings(t)
        \/ LoadLocal(t)
        \/ LoadMetadata(t)
        \/ Search(t)
        \/ Answer(t)
        \/ Finish(t)

ServerSpec == ServerInit /\ [][ServerNext]_vars

\* ------------------------------------------------------------------------
\* The query log (db.py): threads calling log_query on the one connection
\* ------------------------------------------------------------------------
pipelineVars == <<indexDir, index, retriever, callVars>>

DbInit ==
    /\ indexDir = FALSE
    /\ index = <<>>
    /\ retriever = NotLoaded
    /\ pc = "Idle"
    /\ k = 0
    /\ ranking = <<>>
    /\ docs = <<>>
    /\ messages = <<>>
    /\ content = <<>>
    /\ attempts = <<>>
    /\ recs = <<>>
    /\ stage = 0
    /\ result = <<>>
    /\ error = ""
    /\ calls = NoCalls
    /\ ServerIdle
    /\ DbIdle
    /\ FetchIdle

LogAt(t, place) == loggers[t].pc = place
LogGoto(t, place) == loggers' = [loggers EXCEPT ![t].pc = place]
LogRaise(t, e) == loggers' = [loggers EXCEPT ![t].pc = "raised", ![t].error = e]

\* init_db(): _conn = sqlite3.connect(...), CREATE TABLE IF NOT EXISTS, commit
InitDb ==
    /\ ~conn
    /\ conn' = TRUE
    /\ UNCHANGED <<dbLock, pending, table, loggers, pipelineVars, serverVars, fetchVars>>

\* a thread calls log_query(endpoint, query)
LogQuery(t) ==
    /\ LogAt(t, "idle")
    /\ LogGoto(t, "check")
    /\ UNCHANGED <<conn, dbLock, pending, table, pipelineVars, serverVars, fetchVars>>

\* if _conn is None: raise RuntimeError; ts = utcnow().isoformat()
LogCheck(t) ==
    /\ LogAt(t, "check")
    /\ IF conn THEN LogGoto(t, "acquire") ELSE LogRaise(t, "RuntimeError")
    /\ UNCHANGED <<conn, dbLock, pending, table, pipelineVars, serverVars, fetchVars>>

\* LogAcquire not waiting for the lock to be free
LogAcquireNoWait(t) ==
    /\ LogAt(t, "acquire")
    /\ dbLock' = t
    /\ LogGoto(t, "insert")
    /\ UNCHANGED <<conn, pending, table, pipelineVars, serverVars, fetchVars>>

\* with _db_lock: the thread waits until the lock is free and takes it
LogAcquire(t) ==
    /\ LogAt(t, "acquire")
    /\ dbLock = 0
    /\ dbLock' = t
    /\ LogGoto(t, "insert")
    /\ UNCHANGED <<conn, pending, table, pipelineVars, serverVars, fetchVars>>

\* _conn.execute("INSERT INTO queries ..."): the row joins the connection's
\* open transaction, or sqlite raises and the with statement frees the lock
LogInsert(t) ==
    /\ LogAt(t, "insert")
    /\ \/ /\ pending' = Append(pending, t)
          /\ LogGoto(t, "commit")
          /\ UNCHANGED dbLock
       \/ /\ LogRaise(t, "OperationalError")
          /\ dbLock' = 0
          /\ UNCHANGED pending
    /\ UNCHANGED <<conn, table, pipelineVars, serverVars, fetchVars>>

\* _conn.commit(): the open transaction is committed; or sqlite raises, the
\* transaction staying open (database busy) or being rolled back, and the
\* with statement frees the lock
LogCommit(t) ==
    /\ LogAt(t, "commit")
    /\ \/ /\ table' = table \o pending
          /\ pending' = <<>>
          /\ LogGoto(t, "release")
          /\ UNCHANGED dbLock
       \/ /\ LogRaise(t, "OperationalError")
          /\ dbLock' = 0
          /\ pending' \in {pending, <<>>}
          /\ UNCHANGED table
    /\ UNCHANGED <<conn, pipelineVars, serverVars, fetchVars>>

\* the end of the with statement: the lock is freed and log_query returns
LogRelease(t) ==
    /\ LogAt(t, "release")
    /\ dbLock' = 0
    /\ LogGoto(t, "returned")
    /\ UNCHANGED <<conn, pending, table, pipelineVars, serverVars, fetchVars>>

DbNext ==
    \/ InitDb
    \/ \E t \in Loggers :
          \/ LogQuery(t)
          \/ LogCheck(t)
          \/ LogAcquire(t)
          \/ LogInsert(t)
          \/ LogCommit(t)
          \/ LogRelease(t)

DbSpec == DbInit /\ [][DbNext]_vars

\* ------------------------------------------------------------------------
\* The catalog fetch loop (scripts/tmdb_catalog_clean_up/get_tmdb_catalog.py,
\* main): the titles of all services and media types, one after the other
\* ------------------------------------------------------------------------
MaxChunk == 2       \* largest --chunk
MaxTitles == 4      \* titles to fetch

FetchInit ==
    /\ indexDir = FALSE
    /\ index = <<>>
    /\ retriever = NotLoaded
    /\ pc = "Idle"
    /\ k = 0
    /\ ranking = <<>>
    /\ docs = <<>>
    /\ messages = <<>>
    /\ content = <<>>
    /\ attempts = <<>>
    /\ recs = <<>>
    /\ stage = 0
    /\ result = <<>>
    /\ error = ""
    /\ calls = NoCalls
    /\ ServerIdle
    /\ DbIdle
    /\ chunk \in 0..MaxChunk
    /\ ids \in {[i \in 1..n |-> i] : n \in 0..MaxTitles}
    /\ fpc = "fetch"
    /\ rows = <<>>
    /\ total_written = 0
    /\ fetched = <<>>
    /\ flushes = <<>>
    /\ csv = <<>>

HEADER == "header"

\* df.to_csv(args.out, index=False, mode=mode, header=header): the lines of
\* the file afterwards
ToCsv(file, df, mode, header) ==
    (IF mode = "w" THEN <<>> ELSE file) \o (IF header THEN <<HEADER>> ELSE <<>>) \o df

\* the body of a flush: to_csv, total_written += len(rows), rows.clear()
Flush ==
    LET mode == IF total_written > 0 THEN "a" ELSE "w"
        header == total_written = 0
    IN /\ csv' = ToCsv(csv, rows, mode, header)
       /\ flushes' = Append(flushes, [mode |-> mode, header |-> header, n |-> Len(rows)])
       /\ total_written' = total_written + Len(rows)
       /\ rows' = <<>>

\* Flush without rows.clear()
FlushKeeping ==
    LET mode == IF total_written > 0 THEN "a" ELSE "w"
        header == total_written = 0
    IN /\ csv' = ToCsv(csv, rows, mode, header)
       /\ flushes' = Append(flushes, [mode |-> mode, header |-> header, n |-> Len(rows)])
       /\ total_written' = total_written + Len(rows)
       /\ rows' = rows

\* try: detail = fetch_details(...); rows.append(flatten_record(...))
\* except Exception: print(...)
FetchDetails ==
    /\ fpc = "fetch"
    /\ ids # <<>>
    /\ \/ /\ rows' = Append(rows, Head(ids))
          /\ fetched' = Append(fetched, Head(ids))
       \/ UNCHANGED <<rows, fetched>>
    /\ ids' = Tail(ids)
    /\ fpc' = "check"
    /\ UNCHANGED <<chunk, total_written, flushes, csv, pipelineVars, serverVars, dbVars>>

\* FlushCheck flushing without clearing the buffer
FlushCheckKeeping ==
    /\ fpc = "check"
    /\ IF Len(rows) >= chunk THEN FlushKeeping ELSE UNCHANGED <<rows, total_written, flushes, csv>>
    /\ fpc' = "fetch"
    /\ UNCHANGED <<chunk, ids, fetched, pipelineVars, serverVars, dbVars>>

\* if len(rows) >= args.chunk: flush
FlushCheck ==
    /\ fpc = "check"
    /\ IF Len(rows) >= chunk THEN Flush ELSE UNCHANGED <<rows, total_written, flushes, csv>>
    /\ fpc' = "fetch"
    /\ UNCHANGED <<chunk, ids, fetched, pipelineVars, serverVars, dbVars>>

\* the loops are over
LoopsEnd ==
    /\ fpc = "fetch"
    /\ ids = <<>>
    /\ fpc' = "final"
    /\ UNCHANGED <<chunk, ids, rows, total_written, fetched, flushes, csv, pipelineVars,
                   serverVars, dbVars>>

\* if rows: flush
FinalFlush ==
    /\ fpc = "final"
    /\ IF rows # <<>> THEN Flush ELSE UNCHANGED <<rows, total_written, flushes, csv>>
    /\ fpc' = "done"
    /\ UNCHANGED <<chunk, ids, fetched, pipelineVars, serverVars, dbVars>>

FetchNext ==
    \/ FetchDetails
    \/ FlushCheck
    \/ LoopsEnd
    \/ FinalFlush

FetchSpec == FetchInit /\ [][FetchNext]_vars

\* ------------------------------------------------------------------------
\* Claims
\* ------------------------------------------------------------------------
\* the errors of the collaborators: index load, similarity search, model call
UpstreamErrors ==
    {"FileNotFoundError", "EmbeddingsError", "LoadError", "MetadataError",
     "SearchError", "GenerationError"}

TitleOf(rec) == DictGet(rec.d, TITLE, Str(<<>>))
ReasonOf(rec) == DictGet(rec.d, REASON, Str(<<>>))
PosterOf(rec) == DictGet(rec.d, POSTER, Str(<<"(absent)">>))

\* C1: once retrieval and the model call have succeeded, recommend raises
\* nothing, whatever the text: a failure is always one of the collaborators'.
C1_ShapeProblemsAbsorbed == pc = "Failed" => error \in UpstreamErrors

\* C2: the stages are attempted in the order 1, 2, 3; a stage is attempted only
\* after every earlier one has failed, none is attempted after a success, and
\* the result comes from the stage that succeeded.
C2_StagesInOrder ==
    /\ \A i \in 1..Len(attempts) : attempts[i].stage = i
    /\ \A i \in 1..Len(attempts) : i < Len(attempts) => attempts[i].outcome # "list"
    /\ stage # 0 =>
          /\ attempts # <<>>
          /\ attempts[Len(attempts)] = [stage |-> stage, outcome |-> "list"]
    /\ pc \in {"Enriching", "Done"} => stage # 0

C2_Witness ==
    /\ pc = "Done"
    /\ Len(attempts) = 3
    /\ attempts[1].outcome = "decode_error"
    /\ attempts[2].outcome = "decode_error"

\* C3: when neither the bracket span nor the whole text parses as a list and
\* n >= 1 candidates were retrieved, recommend returns min(3, n) entries: the
\* titles and posters of the first candidates in retrieval order, with the
\* fallback reason.
ParsesAsList(text) == JsonLoads(text).ok /\ JsonLoads(text).val.t = "list"
Unparsable(text) ==
    /\ ~ParsesAsList(text)
    /\ ~(RegexSearch(text).found /\ ParsesAsList(RegexSearch(text).str))

C3_FallbackShape ==
    (pc = "Done" /\ Unparsable(content) /\ Len(docs) >= 1) =>
        /\ Len(result) = (IF Len(docs) < 3 THEN Len(docs) ELSE 3)
        /\ \A i \in 1..Len(result) :
              /\ docs[i] = index[ranking[i]]
              /\ TitleOf(result[i]) = Str(docs[i].title)
              /\ ReasonOf(result[i]) = Str(<<"(LLM parsing failed)">>)
              /\ PosterOf(result[i]) = docs[i].poster

C3_Witness ==
    /\ pc = "Done"
    /\ Unparsable(content)
    /\ Len(docs) = 4
    /\ Len(result) = 3
    /\ PosterOf(result[3]) = None

\* the spans of text that are a JSON list
ListSpans(text) ==
    {sp \in Indices(text, "[") \X Indices(text, "]") :
        sp[1] < sp[2] /\ ParsesAsList(SubSeq(text, sp[1], sp[2]))}
ItemsOf(text, sp) == JsonLoads(SubSeq(text, sp[1], sp[2])).val.items
Scanned == Len(attempts) >= 1

\* the returned entries are the parsed ones: same length, order, title, reason
SameEntries(out, drafts) ==
    /\ Len(out) = Len(drafts)
    /\ \A n \in 1..Len(out) :
          /\ TitleOf(out[n]) = TitleOf(drafts[n])
          /\ ReasonOf(out[n]) = ReasonOf(drafts[n])

C5_OnlyListIsStage2 == (ParsesAsList(content) /\ stage # 0) => stage = 2

\* C5 amended: for a text that is nothing but the list, stage 1 is the stage
\* that produces the result, and stage 2 is not attempted.
C5_OnlyListIsStage1 ==
    (ParsesAsList(content) /\ Scanned) =>
        /\ attempts = <<[stage |-> 1, outcome |-> "list"]>>
        /\ stage = 1

C5_Witness ==
    /\ pc = "Done"
    /\ ParsesAsList(content)
    /\ stage = 1
    /\ Len(result) = 2

\* what the specification calls a match of a draft title with a candidate
ExactlyEquals(title, doc) == title.t = "str" /\ title.s = doc.title
ContainsEitherWay(title, doc) ==
    \/ Contains(Lower(PyStr(title)), Lower(doc.title))
    \/ Contains(Lower(doc.title), Lower(PyStr(title)))
Matches(title, doc) == ExactlyEquals(title, doc) \/ ContainsEitherWay(title, doc)
Matched(title) == \E i \in 1..Len(docs) : Matches(title, docs[i])

\* C6: every entry recommend returns, whichever stage produced it, is an object
\* with a poster key, and the poster is null when no candidate matches the title.
C6_PosterKeyAlwaysPresent ==
    pc = "Done" =>
        \A i \in 1..Len(result) :
            /\ result[i].t = "dict"
            /\ HasKey(result[i].d, POSTER)
            /\ ~Matched(TitleOf(result[i])) => PosterOf(result[i]) = None

C6_Witness ==
    /\ pc = "Done"
    /\ stage = 1
    /\ docs # <<>>
    /\ \E i \in 1..Len(result) :
          /\ ~HasKey(recs[i].d, POSTER)
          /\ ~Matched(TitleOf(result[i]))
          /\ PosterOf(result[i]) = None
    /\ \E i \in 1..Len(result) : PosterOf(result[i]) \notin {None, EVIL}

\* C7 as claimed: the poster of a returned entry is non-null if and only if
\* some candidate matches its title.
C7_PosterIffMatched ==
    pc = "Done" =>
        \A i \in 1..Len(result) :
            (PosterOf(result[i]) # None) <=> Matched(TitleOf(result[i]))

\* C7 amended: the poster of a returned entry is null when no candidate
\* matches its title, and otherwise is the poster of a matching candidate,
\* which may itself be null.
C7_PosterOfAMatch ==
    pc = "Done" =>
        \A i \in 1..Len(result) :
            IF Matched(TitleOf(result[i]))
            THEN \E j \in 1..Len(docs) :
                    /\ Matches(TitleOf(result[i]), docs[j])
                    /\ PosterOf(result[i]) = docs[j].poster
            ELSE PosterOf(result[i]) = None

C7_Witness ==
    /\ pc = "Done"
    /\ stage = 1
    /\ \E i \in 1..Len(result) :
          /\ Matched(TitleOf(result[i]))
          /\ PosterOf(result[i]) = None
    /\ \E i \in 1..Len(result) :
          /\ Matched(TitleOf(result[i]))
          /\ PosterOf(result[i]) = P1

Enriched == pc = "Done" /\ stage \in {1, 2}
WithTitle(title) == {j \in 1..Len(docs) : ExactlyEquals(title, docs[j])}
Containing(title) == {j \in 1..Len(docs) : ContainsEitherWay(title, docs[j])}
\* the last candidate in retrieval order with the title of candidate j
LastNamesake(j) == Max({n \in 1..Len(docs) : docs[n].title = docs[j].title})

\* C8 as claimed: a draft whose title equals the title of a candidate c gets
\* the poster of c, for every such c.
C8_PosterOfEveryNamesake ==
    Enriched =>
        \A i \in 1..Len(result) : \A j \in WithTitle(TitleOf(recs[i])) :
            PosterOf(result[i]) = docs[j].poster

\* C8 amended: a draft whose title equals the title of a candidate gets the
\* poster, null or not, of the last candidate in retrieval order with that title.
C8_PosterOfLastNamesake ==
    Enriched =>
        \A i \in 1..Len(result) : \A j \in WithTitle(TitleOf(recs[i])) :
            PosterOf(result[i]) = docs[LastNamesake(j)].poster

C8_Witness ==
    /\ Enriched
    /\ \E i \in 1..Len(result) :
          /\ WithTitle(TitleOf(recs[i])) # {}
          /\ PosterOf(result[i]) = None
          /\ \E j \in Containing(TitleOf(recs[i])) : docs[j].poster # None
    /\ \E i \in 1..Len(result) :
          /\ Cardinality(WithTitle(TitleOf(recs[i]))) = 2
          /\ PosterOf(result[i]) # None

\* C9 as claimed: a draft whose title equals no candidate's title gets the
\* poster of the first candidate in retrieval order whose lower-cased title
\* contains, or is contained in, the lower-cased draft title.
C9_PosterOfFirstContaining ==
    Enriched =>
        \A i \in 1..Len(result) :
            LET title == TitleOf(recs[i])
            IN (WithTitle(title) = {} /\ Containing(title) # {}) =>
                  PosterOf(result[i]) = docs[Min(Containing(title))].poster

\* C9 amended: such a draft resolves to the title of the first candidate in
\* retrieval order whose lower-cased title contains, or is contained in, the
\* lower-cased draft title, and gets the poster of the last candidate with
\* that title.
C9_PosterOfFirstContainingTitle ==
    Enriched =>
        \A i \in 1..Len(result) :
            LET title == TitleOf(recs[i])
            IN (WithTitle(title) = {} /\ Containing(title) # {}) =>
                  PosterOf(result[i]) = docs[LastNamesake(Min(Containing(title)))].poster

C9_Witness ==
    /\ Enriched
    /\ \E i \in 1..Len(result) :
          LET title == TitleOf(recs[i])
          IN /\ title = Str(<<"out">>)
             /\ WithTitle(title) = {}
             /\ Cardinality({docs[j].title : j \in Containing(title)}) = 2
             /\ docs[Min(Containing(title))].title = T1
             /\ PosterOf(result[i]) = P1

\* C10: a non-null poster in the output is the poster of a candidate retrieved
\* for this request; a poster the model wrote into an entry does not survive.
C10_PosterFromCandidates ==
    pc = "Done" =>
        \A i \in 1..Len(result) :
            \/ PosterOf(result[i]) = None
            \/ \E j \in 1..Len(docs) : PosterOf(result[i]) = docs[j].poster

C10_Witness ==
    /\ Enriched
    /\ \E i \in 1..Len(result) :
          /\ PosterOf(recs[i]) = EVIL
          /\ PosterOf(result[i]) = None
    /\ \E i \in 1..Len(result) :
          /\ PosterOf(recs[i]) = EVIL
          /\ PosterOf(result[i]) = P2

\* the messages built for the candidates ds
MessagesFor(ds) ==
    FormatPrompt(QUERY, Dumps(List([i \in 1..Len(ds) |-> DocDict(ds[i])])))
\* ds with the poster and the id of one candidate changed
DocVariants(ds) ==
    {[ds EXCEPT ![i] = [@ EXCEPT !.poster = p, !.id = n]] :
        i \in 1..Len(ds), p \in {None, P1, P2}, n \in 0..MaxCatalog}

\* C11: the messages sent to the model do not depend on the candidates'
\* posters and ids: candidates differing only there give the same messages.
C11_MessagesHidePosterAndId ==
    messages # <<>> => \A v \in DocVariants(docs) : MessagesFor(v) = messages

\* C12: what enrichment returns has the length and the order of the drafts it
\* was given: entry i carries the title and the reason of draft i, matched or not.
C12_SameLengthAndOrder == Enriched => SameEntries(result, recs)

C12_Witness ==
    /\ Enriched
    /\ Len(result) = 2
    /\ TitleOf(result[1]) # TitleOf(result[2])
    /\ PosterOf(result[1]) = P1
    /\ ~Matched(TitleOf(result[2]))

\* C13: a parsed entry without title key or without reason key is kept, and the
\* returned entry has the missing key with the empty string as its value.
C13_MissingKeysDefaulted ==
    Enriched =>
        /\ Len(result) = Len(recs)
        /\ \A i \in 1..Len(result) :
              /\ HasKey(result[i].d, TITLE)
              /\ HasKey(result[i].d, REASON)
              /\ ~HasKey(recs[i].d, TITLE) => TitleOf(result[i]) = Str(<<>>)
              /\ ~HasKey(recs[i].d, REASON) => ReasonOf(result[i]) = Str(<<>>)

\* C14: enrichment does not raise on a draft, whatever the type of its title:
\* when every parsed entry is an object, a failure is one of the collaborators'.
C14_TitleMatcherNeverRaises ==
    (pc = "Failed" /\ \A i \in 1..Len(recs) : recs[i].t = "dict") =>
        error \in UpstreamErrors

\* C15: a text that parses, at some stage, as a value that is no list counts as
\* a failure of that stage: the next stage is attempted, nothing is raised and
\* the value is not returned; the result is the fallback's.
ParsesAsOther(text) == JsonLoads(text).ok /\ JsonLoads(text).val.t # "list"
C15_NonListFallsThrough ==
    /\ \A i \in 1..Len(attempts) :
          attempts[i].outcome = "not_list" =>
              /\ pc \in {"WholeText", "Fallback", "Done"}
              /\ stage \in {0, 3}
              /\ Len(attempts) > i => attempts[i + 1].stage = i + 1
              /\ pc = "Done" =>
                    \A n \in 1..Len(result) :
                        ReasonOf(result[n]) = Str(<<"(LLM parsing failed)">>)
    /\ (Len(attempts) >= 2 /\ ParsesAsOther(content)) =>
          attempts[2] = [stage |-> 2, outcome |-> "not_list"]

C15_Witness ==
    /\ pc = "Done"
    /\ stage = 3
    /\ Len(result) = 3
    /\ ParsesAsOther(content)
    /\ content[1] = "{"
    /\ attempts[2].outcome = "not_list"

\* the stages of a call in their order; BracketScan, WholeText and Fallback
\* make up Recovering
StageRank(p) ==
    CASE p = "Idle" -> 0
      [] p = "Retrieving" -> 1
      [] p = "Prompting" -> 2
      [] p = "Generating" -> 3
      [] p = "BracketScan" -> 4
      [] p = "WholeText" -> 5
      [] p = "Fallback" -> 6
      [] p = "Enriching" -> 7
      [] p = "Done" -> 8
      [] p = "Failed" -> 9

\* C16: every step of a call moves it to a later stage, never back and never
\* in place; retrieval and the model are each called at most once, and the
\* model only from Generating, after retrieval has returned.
C16_StrictlySequential ==
    [][/\ StageRank(pc') > StageRank(pc)
       /\ calls'.load <= 1
       /\ calls'.search <= 1
       /\ calls'.llm <= 1
       /\ calls'.llm > calls.llm =>
            (pc = "Generating" /\ calls.search = 1 /\ calls.cause = "")]_vars

C16_Witness ==
    /\ pc = "Done"
    /\ stage = 1
    /\ result # <<>>
    /\ calls = [load |-> 1, search |-> 1, llm |-> 1, cause |-> ""]

\* C17: when the index load, the search or the model call fails, recommend
\* raises that failure and returns no list; after a retrieval failure the
\* model is not called; the HTTP layer answers 500 with the cause as detail.
C17_UpstreamFailurePropagates ==
    calls.cause # "" =>
        /\ pc = "Failed"
        /\ error = calls.cause
        /\ result = <<>>
        /\ calls.cause # "GenerationError" => (calls.llm = 0 /\ content = <<>>)
        /\ HttpRecommend(pc, result, error) =
              [status |-> 500, detail |-> calls.cause, body |-> <<>>]

C17_Witness ==
    /\ calls.cause = "SearchError"
    /\ index # <<>>
    /\ calls.llm = 0
    /\ HttpRecommend(pc, result, error).status = 500

\* C18: a call that has been made ends: it reaches Done or Failed.
C18_RunsToCompletion == (pc = "Retrieving") ~> (pc \in {"Done", "Failed"})

C18_Witness ==
    /\ pc = "Done"
    /\ stage = 3
    /\ Len(attempts) = 3
    /\ calls.llm = 1

C20_IndexUnavailable ==
    /\ (~indexDir /\ pc \notin {"Idle", "Retrieving"}) =>
          /\ pc = "Failed"
          /\ error = "FileNotFoundError"
          /\ calls.load = 1
          /\ calls.search = 0
          /\ docs = <<>>
          /\ result = <<>>
          /\ retriever = NotLoaded
    /\ calls.search > 0 => retriever.vectorstore

C20_Witness ==
    /\ ~indexDir
    /\ pc = "Failed"
    /\ error = "FileNotFoundError"
    /\ k = 3

\* C24: once retrieval has returned, no step of recommend changes a retrieved
\* candidate or the index it came from: when recommend returns, on any
\* recovery path, the candidates are the records retrieval returned.
C24_CandidatesUnchanged ==
    [][/\ pc \notin {"Idle", "Retrieving"} => (docs' = docs /\ index' = index)
       /\ pc' = "Done" =>
            /\ Len(docs') = (IF k' < Len(index') THEN k' ELSE Len(index'))
            /\ \A i \in 1..Len(docs') : docs'[i] = CatalogItem(ranking'[i])]_vars

C24_Witness ==
    /\ pc = "Done"
    /\ stage = 3
    /\ Len(result) = 3
    /\ PosterOf(result[1]) = P2
    /\ docs[1] = CatalogItem(2)
    /\ attempts[1].outcome = "decode_error"

\* C25: when the title of a draft equals the title of some candidate, its
\* poster is that of a candidate with that very title, and not that of a
\* candidate whose title only contains it, whatever the ranks of the two.
C25_ExactBeforeFuzzy ==
    Enriched =>
        \A i \in 1..Len(result) :
            LET title == TitleOf(recs[i])
                exact == WithTitle(title)
                fuzzy == Containing(title) \ exact
            IN exact # {} =>
                  /\ \E j \in exact : PosterOf(result[i]) = docs[j].poster
                  /\ \A c \in fuzzy :
                        (\A j \in exact : docs[j].poster # docs[c].poster) =>
                            PosterOf(result[i]) # docs[c].poster

C25_Witness ==
    /\ Enriched
    /\ Len(docs) >= 2
    /\ docs[1].title = T2
    /\ docs[1].poster = None
    /\ docs[2].title = T1
    /\ \E i \in 1..Len(result) :
          /\ TitleOf(recs[i]) = Str(T1)
          /\ PosterOf(result[i]) = docs[2].poster
          /\ PosterOf(result[i]) # None

\* C26: when candidates a < b share a title and b is the last of them, a draft
\* that matches that title, exactly or as the first title of the fuzzy scan
\* (scanned at the place of the first of them), gets the poster of b.
C26_DuplicateTitles ==
    Enriched =>
        \A i \in 1..Len(result) : \A a, b \in 1..Len(docs) :
            LET title == TitleOf(recs[i])
            IN (/\ a < b
                /\ docs[a].title = docs[b].title
                /\ b = LastNamesake(a)
                /\ \/ ExactlyEquals(title, docs[a])
                   \/ /\ WithTitle(title) = {}
                      /\ Containing(title) # {}
                      /\ a = Min(Containing(title)))
               => PosterOf(result[i]) = docs[b].poster

C26_Witness ==
    /\ Enriched
    /\ Len(docs) = 3
    /\ docs[1] = CatalogItem(1)
    /\ docs[2] = CatalogItem(3)
    /\ docs[3] = CatalogItem(2)
    /\ \E i \in 1..Len(result) :
          /\ TitleOf(recs[i]) = Str(<<"out">>)
          /\ PosterOf(result[i]) = P2

\* a draft without a title, or with the empty string as its title
Untitled(rec) == rec.t = "dict" /\ TitleOf(rec) = Str(<<>>)

\* C27 as claimed: a draft whose title is missing or empty gets the poster of
\* the top-ranked candidate whenever there is a candidate.
C27_UntitledGetsTopPoster ==
    Enriched =>
        \A i \in 1..Len(result) :
            (Untitled(recs[i]) /\ WithTitle(TitleOf(recs[i])) = {} /\ docs # <<>>) => PosterOf(result[i]) = docs[1].poster

\* C27 amended: such a draft matches the title of the top-ranked candidate and
\* gets the poster of the last candidate in retrieval order with that title.
C27_UntitledGetsTopTitlePoster ==
    Enriched =>
        \A i \in 1..Len(result) :
            (Untitled(recs[i]) /\ WithTitle(TitleOf(recs[i])) = {} /\ docs # <<>>) =>
                PosterOf(result[i]) = docs[LastNamesake(1)].poster

C27_Witness ==
    /\ Enriched
    /\ Len(docs) >= 2
    /\ docs[1] = CatalogItem(4)
    /\ docs[2] = CatalogItem(3)
    /\ \E i \in 1..Len(result) :
          /\ HasKey(recs[i].d, TITLE)
          /\ Untitled(recs[i])
          /\ PosterOf(result[i]) = P1

\* C21: whatever the interleaving of the requests, the index is loaded at most
\* once and a loaded index is never replaced.
C21_IndexLoadedOnce == loads <= 1

\* a request that got the model's text, and has returned or raised since
Finished(t) ==
    /\ reqs[t].pc \in {"done", "failed"}
    /\ reqs[t].error \notin UpstreamErrors
\* what the request makes of its own k, ranking and text, and the index
Alone(t) ==
    Recommendations(Strip(reqs[t].reply),
                    [i \in 1..(IF reqs[t].k < Len(index) THEN reqs[t].k ELSE Len(index)) |->
                        index[reqs[t].ranking[i]]])

C28_FailedLoadLeavesNotLoaded ==
    /\ retriever.vectorstore => retriever.metadata
    /\ calls.cause \in {"FileNotFoundError", "EmbeddingsError", "LoadError", "MetadataError"}
          => ~retriever.vectorstore

InCritical(t) == loggers[t].pc \in {"insert", "commit", "release"}
RowsOf(t, rs) == Cardinality({i \in 1..Len(rs) : rs[i] = t})

\* C29: the insert-and-commit of one log_query never overlaps that of another;
\* a call that has returned has exactly one committed row; a call made before
\* init_db raises RuntimeError and adds no row.
C29_LogQueryExclusive ==
    /\ \A t, u \in Loggers : (InCritical(t) /\ InCritical(u)) => t = u
    /\ \A t \in Loggers : InCritical(t) => dbLock = t
    /\ \A t \in Loggers :
          loggers[t].pc = "returned" => (RowsOf(t, table) = 1 /\ RowsOf(t, pending) = 0)
    /\ \A t \in Loggers :
          loggers[t].error = "RuntimeError" =>
              (loggers[t].pc = "raised" /\ RowsOf(t, table) = 0 /\ RowsOf(t, pending) = 0)
    /\ \A t \in Loggers : RowsOf(t, table) + RowsOf(t, pending) <= 1

C29_Witness ==
    /\ loggers[1].error = "RuntimeError"
    /\ loggers[2].pc = "returned"
    /\ loggers[3].pc = "returned"
    /\ dbLock = 0
    /\ table = <<3, 2>>

\* what C30 says of the fetch loop
FetchLoopKeepsCount ==
    /\ fpc \in {"fetch", "final", "done"} => Len(rows) <= chunk
    /\ \A i \in 1..Len(flushes) :
          /\ flushes[i].mode = (IF i = 1 THEN "w" ELSE "a")
          /\ flushes[i].header = (i = 1)
    /\ fpc = "done" =>
          /\ csv = (IF flushes = <<>> THEN <<>> ELSE <<HEADER>> \o fetched)
          /\ total_written = Len(fetched)
          /\ rows = <<>>

\* C30 as claimed: for every chunk and every sequence of successes and
\* failures, after a flush check the buffer holds at most chunk rows, the
\* first flush writes the file with the header and every later one appends
\* without, each fetched row is written once, and total_written ends as the
\* number of fetched rows.
C30_FetchLoopAnyChunk == FetchLoopKeepsCount

\* C30 amended: the same, for chunk >= 1.
C30_FetchLoopPositiveChunk == chunk >= 1 => FetchLoopKeepsCount

C30_Witness ==
    /\ fpc = "done"
    /\ chunk = 2
    /\ fetched = <<1, 3, 4>>
    /\ Len(flushes) = 2
    /\ flushes[2] = [mode |-> "a", header |-> FALSE, n |-> 1]
    /\ csv = <<HEADER, 1, 3, 4>>
====
